---- MODULE Spec2Model ----
\* Model of the simulation engine of src/space-invaders.py (class SpaceInvaders).
\* One state of the model is the object's fields at the end of one iteration of
\* the game loop run(); one step is one whole iteration: update_state,
\* handle_input, the five simulation calls, and the draw calls that change state.
EXTENDS Integers, Sequences, FiniteSets

\* ---------------------------------------------------------------- constants
game_width == 20
game_height == 16
max_level == 3
\* Slip: a factor of the period is wrong.
counter_period_short == 5 * 4 * 2

counter_period == 5 * 4 * 3
start_x == 3
start_y == 2
spacing_x == 4
spacing_y == 2
num_cols == 3
start_update_freq == 5

\* Number of loop iterations in which the input source is unconstrained.
MaxSteps == 4

\* Largest value the unwrapped tick counter is followed to.
MaxTicks == 240

\* ------------------------------------------------------------- input source
\* What stdscr.getch() can return, classified the way handle_input tests it.
\* "NONE" stands for -1 (no key) and for every key handle_input has no case for.
Keys == {"KEY_LEFT", "KEY_RIGHT", "SPACE", "r", "q", "NONE"}
NoPoll == "NOPOLL"

\* The players driving the game before the unconstrained iterations.
Pilots == {"idle", "rapid", "left", "right"}

\* ------------------------------------------------------------------ helpers
Max(a, b) == IF a >= b THEN a ELSE b

SetMin(S) == CHOOSE m \in S : \A n \in S : m <= n

SetMax(S) == CHOOSE m \in S : \A n \in S : m >= n

\* [bullet for i, bullet in enumerate(bullets) if i not in remove]
RECURSIVE KeepIndices(_, _, _)
KeepIndices(seq, remove, i) ==
    IF i > Len(seq) THEN << >>
    ELSE IF i \in remove THEN KeepIndices(seq, remove, i + 1)
    ELSE << seq[i] >> \o KeepIndices(seq, remove, i + 1)

\* ------------------------------------------------------------- init_enemies
init_enemies(level) ==
    [i \in 1..(num_cols * (level + 1)) |->
        [x |-> start_x + ((i - 1) % num_cols) * spacing_x,
         y |-> start_y + ((i - 1) \div num_cols) * spacing_y,
         alive |-> TRUE]]

\* --------------------------------------------------------------- reset_game
\* Slip: the won flag is not cleared.
reset_game_keeps_won(s) ==
    [s EXCEPT !.counter = 0,
              !.update_freq = start_update_freq,
              !.player_x = game_width \div 2,
              !.player_y = game_height - 1,
              !.enemy_direction = "right",
              !.enemies = init_enemies(s.current_level),
              !.bullets = << >>,
              !.game_over = FALSE]

reset_game(s) ==
    [s EXCEPT !.counter = 0,
              !.update_freq = start_update_freq,
              !.player_x = game_width \div 2,
              !.player_y = game_height - 1,
              !.enemy_direction = "right",
              !.enemies = init_enemies(s.current_level),
              !.bullets = << >>,
              !.game_over = FALSE,
              !.game_won = FALSE]

\* The object __init__ leaves behind.
Constructed ==
    reset_game([running |-> TRUE, game_over |-> FALSE, game_won |-> FALSE,
                current_level |-> 1, space_pressed_last_frame |-> FALSE,
                counter |-> 0, update_freq |-> start_update_freq,
                player_x |-> 0, player_y |-> 0,
                enemy_direction |-> "right", enemies |-> << >>,
                bullets |-> << >>])

\* -------------------------------------------------------------- reset_level
\* Slip: the bullet list is not cleared.
reset_level_keeps_bullets(s) ==
    [s EXCEPT !.counter = 0,
              !.update_freq = Max(5 - s.current_level + 1, 2),
              !.player_x = game_width \div 2,
              !.player_y = game_height - 1,
              !.enemy_direction = "right",
              !.enemies = init_enemies(s.current_level)]

reset_level(s) ==
    [s EXCEPT !.counter = 0,
              !.update_freq = Max(5 - s.current_level + 1, 2),
              !.player_x = game_width \div 2,
              !.player_y = game_height - 1,
              !.enemy_direction = "right",
              !.enemies = init_enemies(s.current_level),
              !.bullets = << >>]

\* ------------------------------------------------------------ check_enemies
any_alive(enemies) == \E i \in DOMAIN enemies : enemies[i].alive

\* Slip: the last level is counted one too low.
check_enemies_early_win(s) ==
    IF ~any_alive(s.enemies)
    THEN IF s.current_level < max_level - 1
         THEN reset_level([s EXCEPT !.current_level = @ + 1])
         ELSE [s EXCEPT !.game_won = TRUE]
    ELSE s

check_enemies(s) ==
    IF ~any_alive(s.enemies)
    THEN IF s.current_level < max_level
         THEN reset_level([s EXCEPT !.current_level = @ + 1])
         ELSE [s EXCEPT !.game_won = TRUE]
    ELSE s

\* ------------------------------------------------------------- update_state
update_state(s) ==
    IF ~s.game_over
    THEN [s EXCEPT !.counter = (@ + 1) % counter_period]
    ELSE s

\* ------------------------------------------------------------- handle_input
\* Slip: the left clamp is missing.
move_left_unclamped(s) == [s EXCEPT !.player_x = @ - 1]

move_left(s) ==
    IF s.player_x > 1 THEN [s EXCEPT !.player_x = @ - 1] ELSE s

move_right(s) ==
    IF s.player_x < game_width - 1 THEN [s EXCEPT !.player_x = @ + 1] ELSE s

\* Slip: the bullet is appended on every SPACE poll.
fire_every_frame(s) ==
    [s EXCEPT !.bullets = Append(@, [x |-> s.player_x, y |-> s.player_y]),
              !.space_pressed_last_frame = TRUE]

fire(s) ==
    [s EXCEPT !.bullets = IF ~s.space_pressed_last_frame
                          THEN Append(@, [x |-> s.player_x, y |-> s.player_y])
                          ELSE @,
              !.space_pressed_last_frame = TRUE]

handle_input(s, k) ==
    IF k = "q" THEN [s EXCEPT !.running = FALSE]
    ELSE IF s.game_over \/ s.game_won
    THEN IF k = "r" THEN reset_game([s EXCEPT !.current_level = 1]) ELSE s
    ELSE IF k = "KEY_LEFT" THEN move_left(s)
    ELSE IF k = "KEY_RIGHT" THEN move_right(s)
    ELSE IF k = "SPACE" THEN fire(s)
    ELSE [s EXCEPT !.space_pressed_last_frame = FALSE]

\* ----------------------------------------------------------- update_enemies
alive_xs(enemies) == {enemies[i].x : i \in {j \in DOMAIN enemies : enemies[j].alive}}

leftmost(enemies) == SetMin(alive_xs(enemies))

rightmost(enemies) == SetMax(alive_xs(enemies))

\* Slip: the right margin has the wrong sign.
hits_right_wall_late(s) ==
    s.enemy_direction = "right" /\ rightmost(s.enemies) >= game_width + 2

hits_right_wall(s) ==
    s.enemy_direction = "right" /\ rightmost(s.enemies) >= game_width - 2

hits_left_wall(s) ==
    s.enemy_direction = "left" /\ leftmost(s.enemies) <= 1

\* Slip: the formation steps up instead of down.
descend_up(enemies) ==
    [i \in DOMAIN enemies |->
        IF enemies[i].alive THEN [enemies[i] EXCEPT !.y = @ - 1] ELSE enemies[i]]

descend(enemies) ==
    [i \in DOMAIN enemies |->
        IF enemies[i].alive THEN [enemies[i] EXCEPT !.y = @ + 1] ELSE enemies[i]]

\* Slip: the horizontal step is lost.
shift_none(enemies, move_amount) == enemies

shift(enemies, move_amount) ==
    [i \in DOMAIN enemies |->
        IF enemies[i].alive THEN [enemies[i] EXCEPT !.x = @ + move_amount]
        ELSE enemies[i]]

\* Slip: the floor of reset_level (2) used for the reversal speed-up.
speed_up_floor2(update_freq) == Max(update_freq - 1, 2)

speed_up(update_freq) == Max(update_freq - 1, 1)

\* Slip: the counter test is missing, the formation moves in every iteration.
update_enemies_every_tick(s) ==
    IF ~s.game_over /\ any_alive(s.enemies)
    THEN IF hits_right_wall(s)
         THEN [s EXCEPT !.enemy_direction = "left",
                        !.enemies = descend(@),
                        !.update_freq = speed_up(@)]
         ELSE IF hits_left_wall(s)
         THEN [s EXCEPT !.enemy_direction = "right",
                        !.enemies = descend(@),
                        !.update_freq = speed_up(@)]
         ELSE [s EXCEPT !.enemies =
                   shift(@, IF s.enemy_direction = "right" THEN 1 ELSE -1)]
    ELSE s

update_enemies(s) ==
    IF ~s.game_over /\ s.counter % s.update_freq = 0 /\ any_alive(s.enemies)
    THEN IF hits_right_wall(s)
         THEN [s EXCEPT !.enemy_direction = "left",
                        !.enemies = descend(@),
                        !.update_freq = speed_up(@)]
         ELSE IF hits_left_wall(s)
         THEN [s EXCEPT !.enemy_direction = "right",
                        !.enemies = descend(@),
                        !.update_freq = speed_up(@)]
         ELSE [s EXCEPT !.enemies =
                   shift(@, IF s.enemy_direction = "right" THEN 1 ELSE -1)]
    ELSE s

\* ----------------------------------------------------------- update_bullets
\* Slip: row 0 is kept.
past_top_late(bullet) == bullet.y < 0

past_top(bullet) == bullet.y < 1

update_bullets(s) ==
    IF ~s.game_over
    THEN LET moved == [i \in DOMAIN s.bullets |->
                          [s.bullets[i] EXCEPT !.y = @ - 1]]
             remove_bullets == {i \in DOMAIN moved : past_top(moved[i])}
         IN  [s EXCEPT !.bullets = KeepIndices(moved, remove_bullets, 1)]
    ELSE s

\* ---------------------------------------------------- collision_check_enemy
\* Slip: the player's coordinates are swapped in the comparison.
collision_check_enemy_swapped(s) ==
    IF ~s.game_over
    THEN IF \E i \in DOMAIN s.enemies :
               /\ s.enemies[i].alive
               /\ s.enemies[i].x = s.player_y
               /\ s.enemies[i].y = s.player_x
         THEN [s EXCEPT !.game_over = TRUE]
         ELSE s
    ELSE s

collision_check_enemy(s) ==
    IF ~s.game_over
    THEN IF \E i \in DOMAIN s.enemies :
               /\ s.enemies[i].alive
               /\ s.enemies[i].x = s.player_x
               /\ s.enemies[i].y = s.player_y
         THEN [s EXCEPT !.game_over = TRUE]
         ELSE s
    ELSE s

\* --------------------------------------------------- collision_check_bullet
\* The bullets on an enemy's cell; the inner loop marks only the first of them,
\* because it clears enemy['alive'] at that one.
\* Slip: only the column is compared.
bullets_on_column(enemy, bullets) ==
    {i \in DOMAIN bullets : bullets[i].x = enemy.x}

bullets_on(enemy, bullets) ==
    {i \in DOMAIN bullets : bullets[i].x = enemy.x /\ bullets[i].y = enemy.y}

collision_check_bullet(s) ==
    IF ~s.game_over
    THEN LET hit == {e \in DOMAIN s.enemies :
                        /\ s.enemies[e].alive
                        /\ bullets_on(s.enemies[e], s.bullets) # {}}
             remove_bullets ==
                 {SetMin(bullets_on(s.enemies[e], s.bullets)) : e \in hit}
         IN  [s EXCEPT !.enemies = [e \in DOMAIN s.enemies |->
                                       IF e \in hit
                                       THEN [s.enemies[e] EXCEPT !.alive = FALSE]
                                       ELSE s.enemies[e]],
                       !.bullets = KeepIndices(s.bullets, remove_bullets, 1)]
    ELSE s

\* ------------------------------------------------------------- draw_enemies
\* Slip: off by one row.
off_bottom_late(enemy) == enemy.y > game_height + 1

off_bottom(enemy) == enemy.y > game_height

draw_enemies(s) ==
    IF \E i \in DOMAIN s.enemies : s.enemies[i].alive /\ off_bottom(s.enemies[i])
    THEN [s EXCEPT !.game_over = TRUE]
    ELSE s

\* ---------------------------------------------------------------------- run
\* Slip: the player-enemy check runs before the formation moves.
simulate_check_first(s) ==
    check_enemies(
        collision_check_bullet(
            update_bullets(
                update_enemies(
                    collision_check_enemy(s)))))

\* Lines 366-370: the calls made while neither flag is set.
simulate(s) ==
    check_enemies(
        collision_check_bullet(
            collision_check_enemy(
                update_bullets(
                    update_enemies(s)))))

\* Lines 374-380: only draw_enemies changes the object.
draw(s) == IF s.game_over \/ s.game_won THEN s ELSE draw_enemies(s)

\* Slip: the simulation calls are made in the terminal states too.
run_unguarded(s, k) ==
    draw(simulate(handle_input(update_state(s), k)))

\* One iteration of the while loop with k the key getch() returns.
run(s, k) ==
    LET polled == handle_input(update_state(s), k)
    IN  draw(IF ~(polled.game_over \/ polled.game_won)
             THEN simulate(polled)
             ELSE polled)

\* -------------------------------------------------------------------- state
VARIABLES running, game_over, game_won, current_level,
          space_pressed_last_frame, counter, update_freq,
          player_x, player_y, enemy_direction, enemies, bullets,
          key, pilot, steps, unwrapped

game == <<running, game_over, game_won, current_level,
          space_pressed_last_frame, counter, update_freq,
          player_x, player_y, enemy_direction, enemies, bullets>>

vars == <<game, key, pilot, steps, unwrapped>>

State ==
    [running |-> running, game_over |-> game_over, game_won |-> game_won,
     current_level |-> current_level,
     space_pressed_last_frame |-> space_pressed_last_frame,
     counter |-> counter, update_freq |-> update_freq,
     player_x |-> player_x, player_y |-> player_y,
     enemy_direction |-> enemy_direction, enemies |-> enemies,
     bullets |-> bullets]

Init ==
    /\ running = Constructed.running
    /\ game_over = Constructed.game_over
    /\ game_won = Constructed.game_won
    /\ current_level = Constructed.current_level
    /\ space_pressed_last_frame = Constructed.space_pressed_last_frame
    /\ counter = Constructed.counter
    /\ update_freq = Constructed.update_freq
    /\ player_x = Constructed.player_x
    /\ player_y = Constructed.player_y
    /\ enemy_direction = Constructed.enemy_direction
    /\ enemies = Constructed.enemies
    /\ bullets = Constructed.bullets
    /\ key = NoPoll
    /\ pilot \in Pilots
    /\ steps = 0
    /\ unwrapped = Constructed.counter

\* The key each pilot presses in state s.
autopilot(p, s) ==
    CASE p = "idle" -> "NONE"
      [] p = "rapid" -> IF s.space_pressed_last_frame THEN "NONE" ELSE "SPACE"
      [] p = "left" -> IF s.player_x > 1 THEN "KEY_LEFT" ELSE "NONE"
      [] p = "right" -> IF s.player_x < game_width - 1 THEN "KEY_RIGHT" ELSE "NONE"

\* The tick counter of the same iteration without the modulo of update_state:
\* s is the object before the iteration, t after it, u the unwrapped counter
\* before it. It is zeroed where reset_game and reset_level zero the counter.
count_unwrapped(u, s, k, t) ==
    IF t.current_level # s.current_level THEN 0
    ELSE IF (s.game_over \/ s.game_won) /\ k = "r" THEN 0
    ELSE IF ~s.game_over THEN u + 1
    ELSE u

\* One loop iteration; the loop condition is self.running.
Iterate(k) ==
    /\ running
    /\ unwrapped < MaxTicks
    /\ \E t \in {run(State, k)} :
           /\ running' = t.running
           /\ game_over' = t.game_over
           /\ game_won' = t.game_won
           /\ current_level' = t.current_level
           /\ space_pressed_last_frame' = t.space_pressed_last_frame
           /\ counter' = t.counter
           /\ update_freq' = t.update_freq
           /\ player_x' = t.player_x
           /\ player_y' = t.player_y
           /\ enemy_direction' = t.enemy_direction
           /\ enemies' = t.enemies
           /\ bullets' = t.bullets
           /\ unwrapped' = count_unwrapped(unwrapped, State, k, t)
    /\ key' = k

Free(k) ==
    /\ steps < MaxSteps
    /\ Iterate(k)
    /\ steps' = steps + 1
    /\ UNCHANGED pilot

PilotTick ==
    /\ steps = 0
    /\ Iterate(autopilot(pilot, State))
    /\ UNCHANGED <<pilot, steps>>

MoveLeft == Free("KEY_LEFT")

MoveRight == Free("KEY_RIGHT")

Fire == Free("SPACE")

Reset == Free("r")

Quit == Free("q")

NoKey == Free("NONE")

Next ==
    \/ PilotTick
    \/ MoveLeft
    \/ MoveRight
    \/ Fire
    \/ Reset
    \/ Quit
    \/ NoKey

Spec == Init /\ [][Next]_vars

\* ------------------------------------------------------------------- typing
TypeOK ==
    /\ running \in BOOLEAN /\ game_over \in BOOLEAN /\ game_won \in BOOLEAN
    /\ current_level \in 1..max_level
    /\ space_pressed_last_frame \in BOOLEAN
    /\ counter \in 0..(counter_period - 1)
    /\ update_freq \in 1..start_update_freq
    /\ enemy_direction \in {"left", "right"}
    /\ Len(enemies) = num_cols * (current_level + 1)
    /\ key \in Keys \cup {NoPoll}
    /\ pilot \in Pilots
    /\ steps \in 0..MaxSteps
    /\ unwrapped \in 0..MaxTicks

Playing == ~game_over /\ ~game_won

\* ------------------------------------------------------------------- claims
created_y(i) == start_y + ((i - 1) \div num_cols) * spacing_y

\* The formation records are replaced in this step (reset_game or reset_level).
FormationReplaced ==
    \/ current_level' # current_level
    \/ (game_over \/ game_won) /\ key' = "r"

\* C1: in every reachable state the player's column is within
\* 1..game_width-1 and the player's row is game_height-1.
C1_PlayerInBounds ==
    /\ 1 <= player_x /\ player_x <= game_width - 1
    /\ player_y = game_height - 1

\* The left pilot has parked the player at column 1 (iteration 9 on), and the
\* one unconstrained poll, KEY_LEFT, left it there.
C1_Witness ==
    /\ pilot = "left" /\ steps = 1 /\ key = "KEY_LEFT"
    /\ counter > 10 /\ current_level = 1 /\ Playing
    /\ player_x = 1

\* C2: every alive enemy has 0 <= x <= game_width.
C2_AliveEnemyInBounds ==
    \A i \in DOMAIN enemies :
        enemies[i].alive => 0 <= enemies[i].x /\ enemies[i].x <= game_width

\* Part of the formation is dead and the rest has reversed at the right wall.
C2_Witness ==
    /\ enemy_direction = "left"
    /\ \E i \in DOMAIN enemies : enemies[i].alive /\ enemies[i].x = game_width - 2
    /\ \E j \in DOMAIN enemies : ~enemies[j].alive

\* C3: as long as the formation is not replaced, one loop iteration leaves each
\* enemy's y unchanged or increases it by exactly 1.
C3_EnemyYSteps ==
    [][~FormationReplaced =>
          \A i \in DOMAIN enemies :
              \/ enemies'[i].y = enemies[i].y
              \/ enemies'[i].y = enemies[i].y + 1]_vars

\* An alive enemy one row below the row it was created in.
C3_Witness ==
    /\ Playing
    /\ \E i \in DOMAIN enemies :
           enemies[i].alive /\ enemies[i].y = created_y(i) + 1

\* C4: a formation advance at a wall (moving right with rightmost >=
\* game_width-2, or moving left with leftmost <= 1) flips the direction, moves
\* every alive enemy down one row, changes no x and no dead enemy, and sets
\* update_freq to max(update_freq - 1, 1).
C4_Reversal ==
    [][(/\ Playing
        /\ ((counter + 1) % counter_period) % update_freq = 0
        /\ any_alive(enemies)
        /\ \/ enemy_direction = "right" /\ rightmost(enemies) >= game_width - 2
           \/ enemy_direction = "left" /\ leftmost(enemies) <= 1
        /\ current_level' = current_level)
       =>
       (/\ enemy_direction' # enemy_direction
        /\ update_freq' = IF update_freq > 1 THEN update_freq - 1 ELSE 1
        /\ \A i \in DOMAIN enemies :
              IF enemies[i].alive
              THEN /\ enemies'[i].x = enemies[i].x
                   /\ enemies'[i].y = enemies[i].y + 1
              ELSE enemies'[i] = enemies[i])]_vars

\* Level 1 after at least five reversals: the last one found update_freq at 1.
C4_Witness ==
    /\ current_level = 1 /\ update_freq = 1
    /\ \E i \in DOMAIN enemies :
           enemies[i].alive /\ enemies[i].y >= created_y(i) + 5

RECURSIVE IsSubSeqFrom(_, _, _, _)
IsSubSeqFrom(a, b, i, j) ==
    IF i > Len(a) THEN TRUE
    ELSE IF j > Len(b) THEN FALSE
    ELSE IF a[i] = b[j] THEN IsSubSeqFrom(a, b, i + 1, j + 1)
    ELSE IsSubSeqFrom(a, b, i, j + 1)

\* C5: in an iteration that starts while playing, the bullets left at the end
\* are, in order, bullets of the start moved up one row (same x) or the bullet
\* fired in this iteration, and none of them is above row 1.
C5_BulletLifecycle ==
    [][Playing =>
          /\ \A j \in DOMAIN bullets' : bullets'[j].y >= 1
          /\ IsSubSeqFrom(bullets',
                 [i \in DOMAIN bullets |-> [bullets[i] EXCEPT !.y = @ - 1]]
                 \o (IF key' = "SPACE"
                     THEN << [x |-> player_x, y |-> player_y - 1] >>
                     ELSE << >>),
                 1, 1)]_vars

\* A bullet has flown up to row 1 with a younger bullet behind it.
C5_Witness ==
    /\ Playing
    /\ Len(bullets) >= 2
    /\ bullets[1].y = 1

\* The bullets that can only have been fired in the iteration just ended.
fresh_bullets(bs) == {j \in DOMAIN bs : bs[j].y = game_height - 2}

\* C6: an iteration adds at most one bullet, and a SPACE poll that follows a
\* SPACE poll adds none.
C6_FireNotLevelTriggered ==
    [][/\ Cardinality(fresh_bullets(bullets')) <= 1
       /\ Len(bullets') <= Len(bullets) + 1
       /\ (Playing /\ key = "SPACE" /\ key' = "SPACE") =>
              /\ fresh_bullets(bullets') = {}
              /\ Len(bullets') <= Len(bullets)]_vars

\* The idle pilot fired nothing; two unconstrained polls, both SPACE, left the
\* single bullet of the first one.
C6_Witness ==
    /\ pilot = "idle" /\ steps = 2 /\ key = "SPACE" /\ Playing
    /\ bullets = << [x |-> player_x, y |-> game_height - 3] >>

\* C7: a SPACE poll while playing whose preceding poll was not SPACE creates a
\* bullet at the player's cell (seen one row up at the end of the iteration,
\* unless it hit an enemy or the level changed).
C7_FireEdgeTriggered ==
    [][(/\ Playing
        /\ key # "SPACE" /\ key' = "SPACE"
        /\ current_level' = current_level
        /\ \A i \in DOMAIN enemies : enemies[i].alive => enemies'[i].alive)
       =>
       \E j \in DOMAIN bullets' :
           bullets'[j] = [x |-> player_x, y |-> player_y - 1]]_vars

\* C8: an alive enemy on the player's cell at the end of an iteration means
\* game over.
C8_CollisionIsGameOver ==
    (\E i \in DOMAIN enemies :
        enemies[i].alive /\ enemies[i].x = player_x /\ enemies[i].y = player_y)
    => game_over

C8_Witness ==
    /\ game_over
    /\ \E i \in DOMAIN enemies :
           enemies[i].alive /\ enemies[i].x = player_x /\ enemies[i].y = player_y

\* C9: an alive enemy below the playfield (y > game_height) at the end of an
\* iteration means game over.
C9_PastBottomIsGameOver ==
    (\E i \in DOMAIN enemies : enemies[i].alive /\ enemies[i].y > game_height)
    => game_over

C9_Witness ==
    /\ game_over
    /\ \E i \in DOMAIN enemies : enemies[i].alive /\ enemies[i].y > game_height

\* C10 as stated: no iteration ends playing with an alive enemy in the
\* player's row or below it.
C10_LostOnPlayerRow ==
    (\E i \in DOMAIN enemies : enemies[i].alive /\ enemies[i].y >= player_y)
    => ~Playing

\* C10 amended: while playing, an alive enemy is at most one row below the
\* player's row, and one in the player's row is in another column.
C10_LostPastBottomOrOnPlayer ==
    Playing =>
        \A i \in DOMAIN enemies :
            enemies[i].alive =>
                /\ enemies[i].y <= player_y + 1
                /\ enemies[i].y = player_y => enemies[i].x # player_x

\* Still playing with an alive enemy in the row below the player's.
C10_Witness ==
    /\ Playing
    /\ \E i \in DOMAIN enemies : enemies[i].alive /\ enemies[i].y = player_y + 1

\* The interval level L starts with: reset_game for level 1, reset_level after.
level_start_interval(L) == IF L = 1 THEN 5 ELSE Max(6 - L, 2)

\* C11: an iteration that starts playing at level L and clears it (L below
\* max_level) ends at level L + 1 with a fresh formation of 3 x (L + 2) alive
\* enemies at their creation cells, direction right, no bullets, the player at
\* the start cell, update_freq = max(6 - (L + 1), 2), below the interval level L
\* started with, and still playing; no iteration ends playing with no enemy
\* alive.
C11_LevelClear ==
    [][/\ (Playing /\ current_level' # current_level) =>
              /\ current_level < max_level
              /\ current_level' = current_level + 1
              /\ Len(enemies') = 3 * (current_level + 2)
              /\ \A i \in DOMAIN enemies' :
                     enemies'[i] =
                         [x |-> start_x + ((i - 1) % num_cols) * spacing_x,
                          y |-> created_y(i),
                          alive |-> TRUE]
              /\ enemy_direction' = "right"
              /\ bullets' = << >>
              /\ player_x' = game_width \div 2
              /\ player_y' = game_height - 1
              /\ update_freq' = Max(6 - (current_level + 1), 2)
              /\ update_freq' < level_start_interval(current_level)
              /\ Playing'
       /\ Playing' => any_alive(enemies')]_vars

\* The end of the iteration that cleared level 1: level 2 with both counters
\* just zeroed by reset_level.
C11_Witness ==
    /\ Playing
    /\ current_level = 2
    /\ unwrapped = 0
    /\ key # "r"

\* C12: game_won is set exactly in an iteration that starts playing at
\* max_level and ends with no enemy alive; it never holds below max_level or
\* with an enemy alive, and level max_level with no enemy alive is always won.
C12_WonExactlyAtLastLevel ==
    [][/\ (~game_won /\ game_won') =>
              /\ Playing
              /\ current_level = max_level
       /\ game_won' => current_level' = max_level /\ ~any_alive(enemies')
       /\ (current_level' = max_level /\ ~any_alive(enemies')) => game_won']_vars

C12_Witness ==
    /\ game_won
    /\ current_level = max_level
    /\ ~any_alive(enemies)
    /\ steps = 0

\* C13: an iteration that starts in game over or won and polls anything but
\* 'r' leaves enemies, bullets, the player, the level, the direction,
\* update_freq and both flags unchanged.
C13_TerminalFrozen ==
    [][((game_over \/ game_won) /\ key' # "r") =>
          /\ enemies' = enemies
          /\ bullets' = bullets
          /\ player_x' = player_x
          /\ player_y' = player_y
          /\ current_level' = current_level
          /\ enemy_direction' = enemy_direction
          /\ update_freq' = update_freq
          /\ game_over' = game_over
          /\ game_won' = game_won]_vars

\* The rapid pilot, which never moves the player, has won with bullets still
\* in flight; the one unconstrained poll, KEY_LEFT, left the player in place.
C13_Witness ==
    /\ game_won
    /\ bullets # << >>
    /\ pilot = "rapid" /\ steps = 1 /\ key = "KEY_LEFT"
    /\ player_x = game_width \div 2

\* C14 as stated: an 'r' poll in game over or won ends its iteration playing
\* at level 1 with the six enemies alive at their creation cells, direction
\* right, update_freq 5, the player at the start cell and no bullets.
C14_ResetRestoresNewGame ==
    [][((game_over \/ game_won) /\ key' = "r") =>
          /\ Playing'
          /\ current_level' = 1
          /\ Len(enemies') = 6
          /\ \A i \in DOMAIN enemies' :
                 enemies'[i] =
                     [x |-> start_x + ((i - 1) % num_cols) * spacing_x,
                      y |-> created_y(i),
                      alive |-> TRUE]
          /\ enemy_direction' = "right"
          /\ update_freq' = 5
          /\ player_x' = game_width \div 2
          /\ player_y' = game_height - 1
          /\ bullets' = << >>]_vars

\* Every enemy keeps its cell in this step.
CellsUnchanged ==
    \A i \in DOMAIN enemies :
        enemies'[i].x = enemies[i].x /\ enemies'[i].y = enemies[i].y

\* The alive enemies all move by (dx, dy) in this step, the dead ones stay.
AliveMovedBy(dx, dy) ==
    \A i \in DOMAIN enemies :
        IF enemies[i].alive
        THEN /\ enemies'[i].x = enemies[i].x + dx
             /\ enemies'[i].y = enemies[i].y + dy
        ELSE /\ enemies'[i].x = enemies[i].x
             /\ enemies'[i].y = enemies[i].y

HorizontalShift ==
    /\ enemy_direction' = enemy_direction
    /\ AliveMovedBy(1, 0) \/ AliveMovedBy(-1, 0)

ReversalWithDescent ==
    /\ enemy_direction' # enemy_direction
    /\ AliveMovedBy(0, 1)

\* C15: in an iteration that starts playing (level changes aside), if the
\* incremented counter is not a multiple of update_freq, every enemy's cell,
\* the direction and update_freq are unchanged; if it is, exactly one of a
\* one-cell horizontal shift and a reversal with a one-row descent happens.
C15_MovesOnlyOnMultiples ==
    [][(Playing /\ any_alive(enemies) /\ current_level' = current_level) =>
          IF ((counter + 1) % counter_period) % update_freq # 0
          THEN /\ CellsUnchanged
               /\ enemy_direction' = enemy_direction
               /\ update_freq' = update_freq
          ELSE /\ HorizontalShift \/ ReversalWithDescent
               /\ ~(HorizontalShift /\ ReversalWithDescent)]_vars

\* The first iteration of a new game: counter 1, formation where it was created.
C15_Witness ==
    /\ Playing
    /\ current_level = 1
    /\ unwrapped = 1
    /\ update_freq = 5
    /\ \A i \in DOMAIN enemies :
           enemies[i].x = start_x + ((i - 1) % num_cols) * spacing_x

\* C16: the wrapped counter is the unwrapped one modulo the period, update_freq
\* divides the period, and in every iteration in which the formation may move
\* the test counter % update_freq == 0 has the same outcome on both counters,
\* so a game run on the unwrapped counter takes the same steps.
C16_WrapPreservesMoves ==
    [][/\ counter' = unwrapped' % counter_period
       /\ counter_period % update_freq' = 0
       /\ Playing =>
              ((((counter + 1) % counter_period) % update_freq = 0)
               <=> ((unwrapped + 1) % update_freq = 0))]_vars

\* The iteration in which the counter wrapped, game still on.
C16_Witness ==
    /\ Playing
    /\ unwrapped = counter_period
    /\ counter = 0

\* The bullets after handle_input and update_bullets of this step.
flown ==
    SelectSeq([i \in DOMAIN bullets |-> [bullets[i] EXCEPT !.y = @ - 1]]
              \o (IF key' = "SPACE" /\ ~space_pressed_last_frame
                  THEN << [x |-> player_x, y |-> player_y - 1] >>
                  ELSE << >>),
              LAMBDA b : b.y >= 1)

\* The bullets collision_check_bullet removed in this step.
gone == {flown[j] : j \in DOMAIN flown} \ {bullets'[j] : j \in DOMAIN bullets'}

\* The enemies that died in this step.
died == {i \in DOMAIN enemies : enemies[i].alive /\ ~enemies'[i].alive}

on_cell(b, e) == b.x = e.x /\ b.y = e.y

\* C17: in an iteration that starts playing (level changes aside) the enemies
\* that die and the bullets the collision check removes correspond one to one
\* by cell; no two alive enemies and no two bullets share a cell.
C17_OneBulletOneEnemy ==
    [][(Playing /\ current_level' = current_level) =>
          /\ Len(bullets') = Len(flown) - Cardinality(gone)
          /\ Cardinality(gone) = Cardinality(died)
          /\ \A i \in died :
                 Cardinality({b \in gone : on_cell(b, enemies'[i])}) = 1
          /\ \A b \in gone :
                 Cardinality({i \in died : on_cell(b, enemies'[i])}) = 1
          /\ \A i, j \in DOMAIN enemies' :
                 (i # j /\ enemies'[i].alive /\ enemies'[j].alive)
                     => ~on_cell(enemies'[i], enemies'[j])
          /\ \A i, j \in DOMAIN bullets' :
                 i # j => ~on_cell(bullets'[i], bullets'[j])]_vars

\* The rapid pilot's first hits: two enemies of one column dead.
C17_Witness ==
    /\ Playing
    /\ current_level = 1
    /\ Cardinality({i \in DOMAIN enemies : ~enemies[i].alive}) = 2
    /\ bullets # << >>

\* C18 as stated: a bullet in the column of and below an alive enemy at the
\* start of an iteration, with the enemy at its end in that column at or below
\* the row the bullet moved to, means the enemy is dead and the bullet removed.
C18_NoPassThrough ==
    [][(Playing /\ current_level' = current_level) =>
          \A i \in DOMAIN enemies : \A j \in DOMAIN bullets :
              (/\ enemies[i].alive
               /\ bullets[j].x = enemies[i].x
               /\ bullets[j].y > enemies[i].y
               /\ enemies'[i].x = bullets[j].x
               /\ enemies'[i].y >= bullets[j].y - 1)
              =>
              (/\ ~enemies'[i].alive
               /\ \A m \in DOMAIN bullets' :
                      bullets'[m] # [bullets[j] EXCEPT !.y = @ - 1])]_vars

\* C19: game_over and game_won are never both set. The two are kept apart by
\* the formation: a won game has no alive enemy (check_enemies), a lost one has
\* one (the collider, or the enemy past the bottom).
C19_NotBothFlags ==
    /\ ~(game_over /\ game_won)
    /\ game_won => ~any_alive(enemies)
    /\ game_over => any_alive(enemies)

\* A game lost after the player had shot part of the formation.
C19_Witness ==
    /\ game_over
    /\ ~game_won
    /\ \E i \in DOMAIN enemies : ~enemies[i].alive

\* A variant for the playing game, read as a number in mixed radix: levels
\* still to play, alive enemies, rows between the lowest alive enemy and the
\* first row past the bottom, columns between the formation and the wall it
\* moves to, iterations until the next counter % update_freq == 0.
alive_ys == {enemies[i].y : i \in {j \in DOMAIN enemies : enemies[j].alive}}

levels_left == max_level - current_level

alive_count == Cardinality({i \in DOMAIN enemies : enemies[i].alive})

rows_left == (game_height + 1) - SetMax(alive_ys)

columns_left ==
    IF enemy_direction = "right"
    THEN Max((game_width - 2) - rightmost(enemies), 0)
    ELSE Max(leftmost(enemies) - 1, 0)

ticks_to_move == update_freq - (counter % update_freq)

Rank ==
    (((levels_left * (num_cols * (max_level + 1) + 1) + alive_count)
          * (game_height + 2) + rows_left)
          * game_width + columns_left)
          * (start_update_freq + 1) + ticks_to_move

\* C20: every game ends, whatever is polled: every component of the variant
\* is a natural number below its radix and every iteration that starts and
\* ends playing lowers the variant, so at most Rank iterations are played.
C20_EveryGameEnds ==
    [][(Playing /\ Playing') =>
          /\ Rank' < Rank
          /\ levels_left' \in 0..(max_level - 1)
          /\ alive_count' \in 1..(num_cols * (max_level + 1))
          /\ rows_left' \in 1..(game_height + 1)
          /\ columns_left' \in 0..(game_width - 1)
          /\ ticks_to_move' \in 1..start_update_freq]_vars

\* The game with no key ever pressed has ended.
C20_Witness ==
    /\ game_over
    /\ pilot = "idle"
    /\ steps = 0
    /\ key = "NONE"
    /\ \A i \in DOMAIN enemies : enemies[i].alive

====
